---- MODULE Spec2Model ----
(***************************************************************************)
(* Model of modules/forcings.py: the chunk planner (get_index_chunks), the *)
(* shared-memory stager (create_shared_memory), the worker routine         *)
(* (process_chunk_shared, weighted_sum_of_cells), the orchestrator         *)
(* (compute_zonal_stats) and the writer (write_outputs).                   *)
(*                                                                         *)
(* Memory sizes are counted in GiB, so that the 5 GiB ceiling of           *)
(* get_index_chunks is the number 5.  0.8 * available is kept exact by     *)
(* comparing 5 * nbytes with 4 * available (floating-point rounding of the *)
(* quotient is not modelled).  Raster values and coverages are integers    *)
(* and a quotient is kept as the exact fraction num/den.                   *)
(***************************************************************************)
EXTENDS Integers, Sequences, FiniteSets, TLC

\* ---------------------------------------------------------------- bounds
MaxAxisLen  == 6   \* axis lengths tried on the planner alone
MaxRowBytes == 2   \* bytes of one row of the time axis (GiB)
MaxAvail    == 8   \* psutil.virtual_memory().available samples (GiB)
MaxT        == 5   \* timesteps of the raster of a run
MaxCores    == 3   \* multiprocessing.cpu_count() of a run
MaxCatch    == 2   \* catchments of a run
NumCells    == 2   \* cells of the flattened grid of a run
Precision   == 3   \* bits of the significand of the float format

\* ------------------------------------------------------ program constants
ChunkCeiling == 5  \* 5 * 1024 * 1024 * 1024 bytes, in GiB

VARIABLES
    pc,             \* position of the orchestrating process
    error,          \* the exception that ended the run, "none" otherwise
    cpu_count,      \* multiprocessing.cpu_count()
    gdf,            \* the catchment IDs, in file order
    merged_data,    \* [n_time, row_nbytes, units_attr] of the raster
    num_partitions,
    catchments,     \* the weight table
    units,          \* get_units' dictionary, as a set of <<var, unit>>
    cat_chunks,     \* the weight table split into partitions
    vidx,           \* index of the variable being processed
    time_chunks,    \* get_index_chunks of the variable
    i,              \* index of the time-chunk being processed
    shm,            \* the orchestrator's segment of the current chunk
    pool,           \* "none", "running", "exited"
    task,           \* one record per partition handed to pool.map
    variable_data,  \* what pool.map returned
    temp,           \* the files of forcings_dir/temp
    temp_exists,    \* whether forcings_dir/temp exists
    final,          \* forcings_dir/forcings.nc
    final_ds,       \* the merged dataset write_outputs is about to write
    log,            \* warnings logged
    call,           \* arguments of a stand-alone get_index_chunks call
    ret             \* its result

vars == <<pc, error, cpu_count, gdf, merged_data, num_partitions, catchments,
          units, cat_chunks, vidx, time_chunks, i, shm, pool, task,
          variable_data, temp, temp_exists, final, final_ds, log, call, ret>>

\* ---------------------------------------------------------------- helpers
Min(a, b) == IF a < b THEN a ELSE b

\* math.ceil(a / b) for positive b
CeilDiv(a, b) == (a + b - 1) \div b

RECURSIVE SumSeq(_)
SumSeq(s) == IF s = <<>> THEN 0 ELSE Head(s) + SumSeq(Tail(s))

RECURSIVE Flatten(_)
\* pd.concat / xr.concat of a list of row lists: the rows in list order
Flatten(ss) == IF ss = <<>> THEN <<>> ELSE Head(ss) \o Flatten(Tail(ss))

\* Faulty variant: every part but the first starts one row early.
array_split_overlap(s, n) ==
    LET q == Len(s) \div n
        r == Len(s) % n
        off(k) == (k - 1) * q + Min(k - 1, r)
        size(k) == q + (IF k <= r THEN 1 ELSE 0)
    IN  [k \in 1..n |->
            SubSeq(s, off(k) + (IF k > 1 THEN 0 ELSE 1), off(k) + size(k))]

\* np.array_split(s, n), n >= 1: the first Len(s) % n parts hold one more row
array_split(s, n) ==
    LET q == Len(s) \div n
        r == Len(s) % n
        off(k) == (k - 1) * q + Min(k - 1, r)
        size(k) == q + (IF k <= r THEN 1 ELSE 0)
    IN  [k \in 1..n |-> SubSeq(s, off(k) + 1, off(k) + size(k))]

\* ------------------------------------------------------------ chunk planner
NoChunks == [raised |-> "none", value |-> <<>>]

\* Faulty variant: every range but the first starts one row early.
get_index_chunks_overlap(nbytes, max_index, available) ==
    LET free_memory5 == Min(4 * available, 5 * ChunkCeiling)
        num_chunks == CeilDiv(5 * nbytes, free_memory5)
        stride == max_index \div num_chunks
    IN  IF stride = 0
        THEN [raised |-> "ValueError", value |-> <<>>]
        ELSE [raised |-> "none",
              value |-> [k \in 1..CeilDiv(max_index, stride) |->
                            <<(k - 1) * stride - (IF k > 1 THEN 1 ELSE 0),
                              k * stride>>]]

\* Faulty variant: the number of chunks is rounded down, not up.
get_index_chunks_floor(nbytes, max_index, available) ==
    LET free_memory5 == Min(4 * available, 5 * ChunkCeiling)
        floor == (5 * nbytes) \div free_memory5
        num_chunks == IF floor = 0 THEN 1 ELSE floor
        stride == max_index \div num_chunks
    IN  IF stride = 0
        THEN [raised |-> "ValueError", value |-> <<>>]
        ELSE [raised |-> "none",
              value |-> [k \in 1..CeilDiv(max_index, stride) |->
                            <<(k - 1) * stride, k * stride>>]]

\* get_index_chunks(data) with data.nbytes = nbytes, data.shape[0] = max_index
\* and psutil.virtual_memory().available = available.  free_memory5 is
\* 5 * min(0.8 * available, 5 GiB).  range(0, max_index, 0) raises ValueError.
get_index_chunks(nbytes, max_index, available) ==
    LET free_memory5 == Min(4 * available, 5 * ChunkCeiling)
        num_chunks == CeilDiv(5 * nbytes, free_memory5)
        stride == max_index \div num_chunks
    IN  IF stride = 0
        THEN [raised |-> "ValueError", value |-> <<>>]
        ELSE [raised |-> "none",
              value |-> [k \in 1..CeilDiv(max_index, stride) |->
                            <<(k - 1) * stride, k * stride>>]]

\* ------------------------------------------------------------------ inputs
\* list(merged_data.data_vars), after drop_vars(["crs"])
DataVars == <<"RAINRATE", "T2D">>
VarSet == {DataVars[k] : k \in DOMAIN DataVars}

\* dataset[var].attrs: no "units" key, an empty "units", or a unit
UnitAttrs == {"<absent>", "", "SI"}

\* merged_data[variable] at time index t (0-based) and flattened cell c
Raster(variable, t, c) ==
    (IF variable = "RAINRATE" THEN 1 ELSE 20) + 3 * t + c * c

\* one timestep of the variable, flattened: cell c is element c + 1
RasterRow(variable, t) == [c \in 1..NumCells |-> Raster(variable, t, c - 1)]

ZeroRow == [c \in 1..NumCells |-> 0]

\* merged_data[variable].isel(time=slice(start, end)): the slice is clamped
\* to the axis, as Python slices are
isel(variable, n_time, start, end) ==
    [r \in 1..(Min(end, n_time) - start) |-> RasterRow(variable, start + r - 1)]

\* data_chunk.time.values: the time coordinate of the same slice
isel_times(n_time, start, end) ==
    [r \in 1..(Min(end, n_time) - start) |-> start + r - 1]

\* What exact_extract may resolve for one catchment: cells with non-zero
\* coverage, cells whose coverages are all zero, or no cell at all.
Coverages(id) ==
    { [cell_id |-> <<0, NumCells - 1>>, coverage |-> <<id, 2>>],
      [cell_id |-> <<0, NumCells - 1>>, coverage |-> <<0, 0>>],
      [cell_id |-> <<>>, coverage |-> <<>>] }

\* The overlay results tried: at most one catchment resolves to zero weight.
Overlays(ids) ==
    { f \in [ids -> UNION {Coverages(id) : id \in ids}] :
        /\ \A id \in ids : f[id] \in Coverages(id)
        /\ Cardinality({id \in ids : SumSeq(f[id].coverage) = 0}) <= 1 }

\* ------------------------------------------------------------- aggregation
NaN == [kind |-> "nan", num |-> 0, den |-> 0]

\* Faulty variant: the division is guarded and yields 0 for a zero divisor.
Divide_guarded(n, d) ==
    IF d # 0 THEN [kind |-> "finite", num |-> n, den |-> d]
    ELSE [kind |-> "finite", num |-> 0, den |-> 1]

\* numpy's n / d on floats: a zero divisor gives nan (0/0) or an infinity,
\* with a RuntimeWarning and no exception
Divide(n, d) ==
    IF d # 0 THEN [kind |-> "finite", num |-> n, den |-> d]
    ELSE IF n = 0 THEN NaN
    ELSE [kind |-> "inf", num |-> (IF n > 0 THEN 1 ELSE -1), den |-> 0]

\* weighted_sum_of_cells(flat_raster, cell_ids, factors): per timestep,
\* sum(flat_raster[t, cell_ids] * factors) / sum(factors)
weighted_sum_of_cells(flat_raster, cell_ids, factors) ==
    LET sum_of_weights == SumSeq(factors)
    IN  [t \in 1..Len(flat_raster) |->
            Divide(SumSeq([k \in 1..Len(cell_ids) |->
                              flat_raster[t][cell_ids[k] + 1] * factors[k]]),
                   sum_of_weights)]

\* The loop of process_chunk_shared over chunk.index.unique() and the
\* xr.concat(results, dim="catchment") that ends it.
process_chunk_shared(times, raster, chunk) ==
    [time |-> times,
     rows |-> [k \in 1..Len(chunk) |->
                 [catchment |-> chunk[k].ID,
                  series |-> weighted_sum_of_cells(raster, chunk[k].cell_id,
                                                   chunk[k].coverage)]]]

\* Faulty variant: the datasets are concatenated in reverse order.
RECURSIVE concat_time_reversed(_)
concat_time_reversed(datasets) ==
    IF Len(datasets) = 1 THEN Head(datasets)
    ELSE LET rest == concat_time_reversed(Tail(datasets))
             first == Head(datasets)
         IN  [time |-> rest.time \o first.time,
              rows |-> [k \in 1..Len(first.rows) |->
                          [catchment |-> first.rows[k].catchment,
                           series |-> rest.rows[k].series \o first.rows[k].series]]]

\* xr.concat(datasets, dim="time") of datasets over the same catchments
RECURSIVE concat_time(_)
concat_time(datasets) ==
    IF Len(datasets) = 1 THEN Head(datasets)
    ELSE LET rest == concat_time(Tail(datasets))
             first == Head(datasets)
         IN  [time |-> first.time \o rest.time,
              rows |-> [k \in 1..Len(first.rows) |->
                          [catchment |-> first.rows[k].catchment,
                           series |-> first.rows[k].series \o rest.rows[k].series]]]

\* xr.concat(variable_data, dim="catchment") of results over the same times
concat_catchment(das) ==
    [time |-> das[1].time,
     rows |-> Flatten([k \in 1..Len(das) |-> das[k].rows])]

\* ------------------------------------------------------------ shared memory
NoShm == [name |-> 0, linked |-> FALSE, open |-> FALSE, buf |-> <<>>]

\* create_shared_memory(lazy_array): a fresh zero-filled segment, filled one
\* sub-range of get_index_chunks(lazy_array) at a time; the ValueError of the
\* planner leaves the function after the segment was allocated.
create_shared_memory(lazy_array, row_nbytes, available, name) ==
    LET sub == get_index_chunks(Len(lazy_array) * row_nbytes, Len(lazy_array),
                                available)
        copied(r) == \E k \in DOMAIN sub.value :
                        sub.value[k][1] <= r - 1 /\ r - 1 < sub.value[k][2]
    IN  [raised |-> sub.raised,
         shm |-> [name |-> name, linked |-> TRUE, open |-> TRUE,
                  buf |-> [r \in 1..Len(lazy_array) |->
                             IF copied(r) THEN lazy_array[r] ELSE ZeroRow]]]

\* ----------------------------------------------------------------- files
ChunkFile(variable, k) == <<"timechunk", variable, k>>
VarFile(variable) == <<"variable", variable, 0>>

NoDataset == [time |-> <<>>, rows |-> <<>>]
NoFinal == [state |-> "prior", writes |-> 0, vars |-> {}]

\* the keys of write_outputs' variables dictionary the raster holds
PublicName(variable) ==
    IF variable = "RAINRATE" THEN "precip_rate" ELSE "TMP_2maboveground"

\* ------------------------------------------------------------------- state
Idle ==
    /\ error = "none"
    /\ num_partitions = 0
    /\ catchments = <<>>
    /\ units = {}
    /\ cat_chunks = <<>>
    /\ vidx = 0
    /\ time_chunks = <<>>
    /\ i = 0
    /\ shm = NoShm
    /\ pool = "none"
    /\ task = <<>>
    /\ variable_data = <<>>
    /\ temp = {}
    /\ temp_exists = TRUE
    /\ final = NoFinal
    /\ final_ds = {}
    /\ log = {}

\* compute_zonal_stats(gdf, merged_data, forcings_dir) is entered
Init ==
    /\ pc = "partitions"
    /\ cpu_count \in 1..MaxCores
    /\ gdf \in {[k \in 1..n |-> k] : n \in 1..MaxCatch}
    /\ merged_data \in [n_time : 1..MaxT, row_nbytes : 1..MaxRowBytes,
                        units_attr : [VarSet -> UnitAttrs]]
    /\ call = [max_index |-> 0, row_nbytes |-> 0, available |-> 0]
    /\ ret = NoChunks
    /\ Idle

run_inputs == <<cpu_count, gdf, merged_data, call, ret>>

\* the exception leaves compute_zonal_stats
Raise(what) == pc' = "raised" /\ error' = what

\* --------------------------------------------- compute_zonal_stats, set-up
\* lines 346-348
CountPartitions ==
    /\ pc = "partitions"
    /\ num_partitions' = IF cpu_count - 1 > Len(gdf) THEN Len(gdf)
                         ELSE cpu_count - 1
    /\ pc' = "weights"
    /\ UNCHANGED <<error, catchments, units, cat_chunks, vidx, time_chunks, i,
                   shm, pool, task, variable_data, temp, temp_exists, final,
                   final_ds, log, run_inputs>>

\* get_cell_weights_parallel: np.array_split(gdf, 0) raises ValueError
WeightsRaise ==
    /\ pc = "weights"
    /\ num_partitions = 0
    /\ Raise("ValueError: array_split")
    /\ UNCHANGED <<num_partitions, catchments, units, cat_chunks, vidx,
                   time_chunks, i, shm, pool, task, variable_data, temp,
                   temp_exists, final, final_ds, log, run_inputs>>

\* get_cell_weights_parallel: the overlay of every partition of gdf, and the
\* pd.concat of the partitions' rows
get_cell_weights_parallel ==
    /\ pc = "weights"
    /\ num_partitions > 0
    /\ \E overlay \in Overlays({gdf[k] : k \in DOMAIN gdf}) :
          LET gdf_chunks == array_split(gdf, num_partitions)
              get_cell_weights(gdf_chunk) ==
                  [k \in 1..Len(gdf_chunk) |->
                      [ID |-> gdf_chunk[k],
                       cell_id |-> overlay[gdf_chunk[k]].cell_id,
                       coverage |-> overlay[gdf_chunk[k]].coverage]]
          IN  catchments' = Flatten([p \in 1..num_partitions |->
                                        get_cell_weights(gdf_chunks[p])])
    /\ pc' = "units"
    /\ UNCHANGED <<error, num_partitions, units, cat_chunks, vidx, time_chunks,
                   i, shm, pool, task, variable_data, temp, temp_exists, final,
                   final_ds, log, run_inputs>>

\* get_units(dataset): dataset[var].attrs["units"] raises KeyError for a
\* variable without the key; an empty unit is left out of the dictionary
get_units(attrs) ==
    IF \E var \in VarSet : attrs[var] = "<absent>"
    THEN [raised |-> "KeyError: units", value |-> {}]
    ELSE [raised |-> "none",
          value |-> {<<var, attrs[var]>> : var \in {v \in VarSet : attrs[v] # ""}}]

\* line 351, get_units returns
UnitsReturn ==
    /\ pc = "units"
    /\ get_units(merged_data.units_attr).raised = "none"
    /\ units' = get_units(merged_data.units_attr).value
    /\ pc' = "split"
    /\ UNCHANGED <<error, num_partitions, catchments, cat_chunks, vidx,
                   time_chunks, i, shm, pool, task, variable_data, temp,
                   temp_exists, final, final_ds, log, run_inputs>>

\* line 351, get_units raises
UnitsRaise ==
    /\ pc = "units"
    /\ get_units(merged_data.units_attr).raised # "none"
    /\ Raise(get_units(merged_data.units_attr).raised)
    /\ UNCHANGED <<num_partitions, catchments, units, cat_chunks, vidx,
                   time_chunks, i, shm, pool, task, variable_data, temp,
                   temp_exists, final, final_ds, log, run_inputs>>

\* line 364
SplitCatchments ==
    /\ pc = "split"
    /\ cat_chunks' = array_split(catchments, num_partitions)
    /\ vidx' = 1
    /\ pc' = "variable"
    /\ UNCHANGED <<error, num_partitions, catchments, units, time_chunks, i,
                   shm, pool, task, variable_data, temp, temp_exists, final,
                   final_ds, log, run_inputs>>

\* ------------------------------------- compute_zonal_stats, variable loop
variable == DataVars[vidx]

\* lines 388-398: the next variable's time-chunks are planned
PlanVariable ==
    /\ pc = "variable"
    /\ vidx <= Len(DataVars)
    /\ \E available \in 1..MaxAvail :
          LET planned == get_index_chunks(
                             merged_data.n_time * merged_data.row_nbytes,
                             merged_data.n_time, available)
          IN  /\ planned.raised = "none"
              /\ time_chunks' = planned.value
    /\ i' = 0
    /\ pc' = "stage"
    /\ UNCHANGED <<error, num_partitions, catchments, units, cat_chunks, vidx,
                   shm, pool, task, variable_data, temp, temp_exists, final,
                   final_ds, log, run_inputs>>

\* line 397: get_index_chunks raises
PlanVariableRaise ==
    /\ pc = "variable"
    /\ vidx <= Len(DataVars)
    /\ \E available \in 1..MaxAvail :
          LET planned == get_index_chunks(
                             merged_data.n_time * merged_data.row_nbytes,
                             merged_data.n_time, available)
          IN  /\ planned.raised # "none"
              /\ Raise(planned.raised)
    /\ UNCHANGED <<num_partitions, catchments, units, cat_chunks, vidx,
                   time_chunks, i, shm, pool, task, variable_data, temp,
                   temp_exists, final, final_ds, log, run_inputs>>

\* line 388: every variable is processed
VariablesDone ==
    /\ pc = "variable"
    /\ vidx > Len(DataVars)
    /\ pc' = "write_outputs"
    /\ UNCHANGED <<error, num_partitions, catchments, units, cat_chunks, vidx,
                   time_chunks, i, shm, pool, task, variable_data, temp,
                   temp_exists, final, final_ds, log, run_inputs>>

\* the rows and the times of time-chunk i (0-based) of the variable
data_chunk == isel(variable, merged_data.n_time,
                   time_chunks[i + 1][1], time_chunks[i + 1][2])
times == isel_times(merged_data.n_time,
                    time_chunks[i + 1][1], time_chunks[i + 1][2])

\* lines 399-405: the chunk is selected and staged
StageChunk ==
    /\ pc = "stage"
    /\ i < Len(time_chunks)
    /\ \E available \in 1..MaxAvail :
          LET staged == create_shared_memory(data_chunk, merged_data.row_nbytes,
                                             available, shm.name + 1)
          IN  /\ staged.raised = "none"
              /\ shm' = staged.shm
    /\ pc' = "pool"
    /\ UNCHANGED <<error, num_partitions, catchments, units, cat_chunks, vidx,
                   time_chunks, i, pool, task, variable_data, temp,
                   temp_exists, final, final_ds, log, run_inputs>>

\* line 405: create_shared_memory raises after it allocated the segment
StageChunkRaise ==
    /\ pc = "stage"
    /\ i < Len(time_chunks)
    /\ \E available \in 1..MaxAvail :
          LET staged == create_shared_memory(data_chunk, merged_data.row_nbytes,
                                             available, shm.name + 1)
          IN  /\ staged.raised # "none"
              /\ shm' = staged.shm
              /\ Raise(staged.raised)
    /\ UNCHANGED <<num_partitions, catchments, units, cat_chunks, vidx,
                   time_chunks, i, pool, task, variable_data, temp,
                   temp_exists, final, final_ds, log, run_inputs>>

\* line 417: the pool is created and pool.map hands out one task a partition
PoolStart ==
    /\ pc = "pool"
    /\ pool' = "running"
    /\ task' = [k \in 1..num_partitions |->
                  [state |-> "pending", attached |-> FALSE,
                   result |-> NoDataset]]
    /\ pc' = "map"
    /\ UNCHANGED <<error, num_partitions, catchments, units, cat_chunks, vidx,
                   time_chunks, i, shm, variable_data, temp, temp_exists,
                   final, final_ds, log, run_inputs>>

worker_vars == <<pc, error, num_partitions, catchments, units, cat_chunks,
                 vidx, time_chunks, i, shm, pool, variable_data, temp,
                 temp_exists, final, final_ds, log, run_inputs>>

\* process_chunk_shared, lines 254-255: the worker attaches to the segment
\* (FileNotFoundError when no segment of that name exists)
WorkerAttach(k) ==
    /\ pool = "running"
    /\ task[k].state = "pending"
    /\ task' = [task EXCEPT ![k] =
                  IF shm.linked
                  THEN [@ EXCEPT !.state = "attached", !.attached = TRUE]
                  ELSE [@ EXCEPT !.state = "raised"]]
    /\ UNCHANGED worker_vars

\* Faulty variant: the worker zeroes the rows of the segment it has read.
WorkerReturn_inplace(k) ==
    /\ pool = "running"
    /\ task[k].state = "attached"
    /\ task' = [task EXCEPT ![k] =
                  [state |-> "returned", attached |-> FALSE,
                   result |-> process_chunk_shared(times, shm.buf, cat_chunks[k])]]
    /\ shm' = [shm EXCEPT !.buf = [r \in DOMAIN shm.buf |-> ZeroRow]]
    /\ UNCHANGED <<pc, error, num_partitions, catchments, units, cat_chunks,
                   vidx, time_chunks, i, pool, variable_data, temp,
                   temp_exists, final, final_ds, log, run_inputs>>

\* process_chunk_shared, lines 256-271: every catchment of the partition is
\* averaged, the attachment is closed and the concatenation is returned
WorkerReturn(k) ==
    /\ pool = "running"
    /\ task[k].state = "attached"
    /\ task' = [task EXCEPT ![k] =
                  [state |-> "returned", attached |-> FALSE,
                   result |-> process_chunk_shared(times, shm.buf, cat_chunks[k])]]
    /\ UNCHANGED worker_vars

\* process_chunk_shared, lines 258-269: an exception inside the loop (a
\* MemoryError of the gather, for one) leaves the function before line 270
WorkerRaise(k) ==
    /\ pool = "running"
    /\ task[k].state = "attached"
    /\ task' = [task EXCEPT ![k] = [@ EXCEPT !.state = "raised"]]
    /\ UNCHANGED worker_vars

\* Faulty variant: the tasks are not waited for (map_async for map).
PoolJoined_async == TRUE

\* pool.map blocks until every task has returned or raised
PoolJoined == \A k \in DOMAIN task : task[k].state \in {"returned", "raised"}

\* Pool.__exit__ is Pool.terminate: the worker processes end, and with them
\* any attachment they hold
terminate(tasks) ==
    [k \in DOMAIN tasks |->
        [tasks[k] EXCEPT !.attached = FALSE,
                         !.state = IF @ \in {"pending", "attached"}
                                   THEN "terminated" ELSE @]]

\* line 418: pool.map returns the tasks' results in partition order
PoolMapReturn ==
    /\ pc = "map"
    /\ PoolJoined
    /\ \A k \in DOMAIN task : task[k].state # "raised"
    /\ variable_data' = [k \in DOMAIN task |-> task[k].result]
    /\ pc' = "exit"
    /\ UNCHANGED <<error, num_partitions, catchments, units, cat_chunks, vidx,
                   time_chunks, i, shm, pool, task, temp, temp_exists, final,
                   final_ds, log, run_inputs>>

\* line 418: pool.map re-raises a task's exception; it unwinds the with
\* block (the pool is terminated) and leaves compute_zonal_stats
PoolMapRaise ==
    /\ pc = "map"
    /\ PoolJoined
    /\ \E k \in DOMAIN task : task[k].state = "raised"
    /\ pool' = "exited"
    /\ task' = terminate(task)
    /\ Raise("worker exception")
    /\ UNCHANGED <<num_partitions, catchments, units, cat_chunks, vidx,
                   time_chunks, i, shm, variable_data, temp, temp_exists,
                   final, final_ds, log, run_inputs>>

\* line 417: the with block is left
PoolExit ==
    /\ pc = "exit"
    /\ pool' = "exited"
    /\ task' = terminate(task)
    /\ pc' = "close"
    /\ UNCHANGED <<error, num_partitions, catchments, units, cat_chunks, vidx,
                   time_chunks, i, shm, variable_data, temp, temp_exists,
                   final, final_ds, log, run_inputs>>

\* line 422
ShmClose ==
    /\ pc = "close"
    /\ shm' = [shm EXCEPT !.open = FALSE]
    /\ pc' = "unlink"
    /\ UNCHANGED <<error, num_partitions, catchments, units, cat_chunks, vidx,
                   time_chunks, i, pool, task, variable_data, temp,
                   temp_exists, final, final_ds, log, run_inputs>>

\* line 423
ShmUnlink ==
    /\ pc = "unlink"
    /\ shm' = [shm EXCEPT !.linked = FALSE, !.buf = <<>>]
    /\ pc' = "persist"
    /\ UNCHANGED <<error, num_partitions, catchments, units, cat_chunks, vidx,
                   time_chunks, i, pool, task, variable_data, temp,
                   temp_exists, final, final_ds, log, run_inputs>>

\* to_netcdf(path): the file of that name is created or replaced
to_netcdf(files, name, ds) ==
    {f \in files : f.name # name} \cup {[name |-> name, ds |-> ds]}

\* xr.open_dataset(path)
open_dataset(files, name) == (CHOOSE f \in files : f.name = name).ds

\* lines 426-436: the partitions' results are concatenated over catchments
\* and written to the chunk's file
PersistChunk ==
    /\ pc = "persist"
    /\ temp' = to_netcdf(temp, ChunkFile(variable, i),
                         concat_catchment(variable_data))
    /\ variable_data' = <<>>
    /\ i' = i + 1
    /\ pc' = "stage"
    /\ UNCHANGED <<error, num_partitions, catchments, units, cat_chunks, vidx,
                   time_chunks, shm, pool, task, temp_exists, final, final_ds,
                   log, run_inputs>>

\* lines 438-454: the chunk files are read in index order, concatenated over
\* time into the variable's file, and every *_timechunk_* file is deleted
ConcatVariable ==
    /\ pc = "stage"
    /\ i = Len(time_chunks)
    /\ LET datasets == [k \in 1..Len(time_chunks) |->
                           open_dataset(temp, ChunkFile(variable, k - 1))]
       IN  temp' = {f \in to_netcdf(temp, VarFile(variable), concat_time(datasets)) :
                       f.name[1] # "timechunk"}
    /\ vidx' = vidx + 1
    /\ pc' = "variable"
    /\ UNCHANGED <<error, num_partitions, catchments, units, cat_chunks,
                   time_chunks, i, shm, pool, task, variable_data,
                   temp_exists, final, final_ds, log, run_inputs>>

\* ------------------------------------------------------------ write_outputs
\* value * factor on a quotient kept as num/den
Scale(value, factor) ==
    IF value.kind = "finite" THEN [value EXCEPT !.num = @ * factor] ELSE value

\* add_apcp_surface_to_dataset: precip_rate * 3600, in mm h^-1
add_apcp_surface_to_dataset(ds) ==
    LET precip_rate == CHOOSE v \in ds : v.name = "precip_rate"
    IN  ds \cup {[name |-> "APCP_surface", units |-> "mm h^-1",
                  data |-> [precip_rate.data EXCEPT !.rows =
                              [k \in DOMAIN @ |->
                                 [@[k] EXCEPT !.series =
                                    [t \in DOMAIN @ |-> Scale(@[t], 3600)]]]]]}

unit_of(var) == (CHOOSE u \in units : u[1] = var)[2]

\* lines 496-541: the files of temp are merged, the recorded units attached
\* (a warning for a variable without one), the variables renamed and the
\* precipitation given in its second form
MergeOutputs ==
    /\ pc = "write_outputs"
    /\ LET merged == {[name |-> PublicName(f.name[2]),
                       units |-> IF \E u \in units : u[1] = f.name[2]
                                 THEN unit_of(f.name[2]) ELSE "<absent>",
                       data |-> f.ds] : f \in temp}
       IN  final_ds' = IF \E v \in merged : v.name = "precip_rate"
                       THEN add_apcp_surface_to_dataset(merged)
                       ELSE merged
    /\ log' = log \cup {<<"has no units", f.name[2]>> :
                           f \in {g \in temp : ~ \E u \in units : u[1] = g.name[2]}}
    /\ pc' = "to_netcdf"
    /\ UNCHANGED <<error, num_partitions, catchments, units, cat_chunks, vidx,
                   time_chunks, i, shm, pool, task, variable_data, temp,
                   temp_exists, final, run_inputs>>

\* line 543: to_netcdf opens forcings.nc for writing, which truncates it
WriteFinalBegin ==
    /\ pc = "to_netcdf"
    /\ final' = [final EXCEPT !.state = "partial", !.vars = {}]
    /\ pc' = "flush"
    /\ UNCHANGED <<error, num_partitions, catchments, units, cat_chunks, vidx,
                   time_chunks, i, shm, pool, task, variable_data, temp,
                   temp_exists, final_ds, log, run_inputs>>

\* line 543: every variable is written and the file is closed
WriteFinalEnd ==
    /\ pc = "flush"
    /\ final' = [state |-> "complete", writes |-> final.writes + 1,
                 vars |-> final_ds]
    /\ pc' = "cleanup"
    /\ UNCHANGED <<error, num_partitions, catchments, units, cat_chunks, vidx,
                   time_chunks, i, shm, pool, task, variable_data, temp,
                   temp_exists, final_ds, log, run_inputs>>

\* line 543: the write fails part-way (no space left, for one)
WriteFinalRaise ==
    /\ pc = "flush"
    /\ Raise("OSError: to_netcdf")
    /\ UNCHANGED <<num_partitions, catchments, units, cat_chunks, vidx,
                   time_chunks, i, shm, pool, task, variable_data, temp,
                   temp_exists, final, final_ds, log, run_inputs>>

\* Faulty variant: the glob matches nothing, the files of temp stay.
CleanUp_keeps_files ==
    /\ pc = "cleanup"
    /\ pc' = "done"
    /\ UNCHANGED <<error, num_partitions, catchments, units, cat_chunks, vidx,
                   time_chunks, i, shm, pool, task, variable_data, temp,
                   temp_exists, final, final_ds, log, run_inputs>>

\* lines 545-551: the files of temp and temp itself are deleted
CleanUp ==
    /\ pc = "cleanup"
    /\ temp' = {}
    /\ temp_exists' = FALSE
    /\ pc' = "done"
    /\ UNCHANGED <<error, num_partitions, catchments, units, cat_chunks, vidx,
                   time_chunks, i, shm, pool, task, variable_data, final,
                   final_ds, log, run_inputs>>

Next ==
    \/ CountPartitions
    \/ WeightsRaise
    \/ get_cell_weights_parallel
    \/ UnitsReturn
    \/ UnitsRaise
    \/ SplitCatchments
    \/ PlanVariable
    \/ PlanVariableRaise
    \/ VariablesDone
    \/ StageChunk
    \/ StageChunkRaise
    \/ PoolStart
    \/ \E k \in DOMAIN task : WorkerAttach(k)
    \/ \E k \in DOMAIN task : WorkerReturn(k)
    \/ \E k \in DOMAIN task : WorkerRaise(k)
    \/ PoolMapReturn
    \/ PoolMapRaise
    \/ PoolExit
    \/ ShmClose
    \/ ShmUnlink
    \/ PersistChunk
    \/ ConcatVariable
    \/ MergeOutputs
    \/ WriteFinalBegin
    \/ WriteFinalEnd
    \/ WriteFinalRaise
    \/ CleanUp

Spec == Init /\ [][Next]_vars

\* ------------------------------------------- the chunk planner on its own
\* get_index_chunks is about to be called on an axis of max_index rows of
\* row_nbytes each, with `available` of memory free
PlannerInit ==
    /\ pc = "planner"
    /\ call \in [max_index : 1..MaxAxisLen, row_nbytes : 1..MaxRowBytes,
                 available : 1..MaxAvail]
    /\ ret = NoChunks
    /\ cpu_count = 1
    /\ gdf = <<>>
    /\ merged_data = [n_time |-> 0, row_nbytes |-> 0,
                      units_attr |-> [v \in VarSet |-> ""]]
    /\ Idle

PlannerCall ==
    /\ pc = "planner"
    /\ ret' = get_index_chunks(call.max_index * call.row_nbytes, call.max_index,
                               call.available)
    /\ pc' = "returned"
    /\ UNCHANGED <<error, cpu_count, gdf, merged_data, call, num_partitions,
                   catchments, units, cat_chunks, vidx, time_chunks, i, shm,
                   pool, task, variable_data, temp, temp_exists, final,
                   final_ds, log>>

PlannerNext == PlannerCall

PlannerSpec == PlannerInit /\ [][PlannerNext]_vars

\* ------------------------------------- the aggregator in float arithmetic
\* numpy computes weighted_sum_of_cells in binary floating point: every
\* product, every partial sum and the quotient are rounded to the nearest
\* value of the format, ties to even.  The format is modelled with a
\* significand of Precision bits and an unbounded exponent.
RECURSIVE Pow2(_)
Pow2(k) == IF k = 0 THEN 1 ELSE 2 * Pow2(k - 1)

\* the integer nearest to n / d, ties to even (n >= 0, d > 0)
RoundHalfEven(n, d) ==
    LET q == n \div d
        r == n % d
    IN  IF 2 * r < d THEN q
        ELSE IF 2 * r > d THEN q + 1
        ELSE IF q % 2 = 0 THEN q ELSE q + 1

\* the value of the format nearest to n / d (n > 0, d > 0)
RECURSIVE RoundPos(_, _)
RoundPos(n, d) ==
    IF n >= d * Pow2(Precision)
    THEN LET r == RoundPos(n, 2 * d)
         IN  [kind |-> "finite", num |-> 2 * r.num, den |-> r.den]
    ELSE IF n < d * Pow2(Precision - 1)
    THEN LET r == RoundPos(2 * n, d)
         IN  [kind |-> "finite", num |-> r.num, den |-> 2 * r.den]
    ELSE [kind |-> "finite", num |-> RoundHalfEven(n, d), den |-> 1]

\* the value of the format nearest to n / d (d > 0)
Round(n, d) ==
    IF n = 0 THEN [kind |-> "finite", num |-> 0, den |-> 1]
    ELSE IF n > 0 THEN RoundPos(n, d)
    ELSE LET r == RoundPos(0 - n, d)
         IN  [kind |-> "finite", num |-> 0 - r.num, den |-> r.den]

\* a * b, a + b and a / b of two values of the format
multiply(a, b) == Round(a.num * b.num, a.den * b.den)

add(a, b) == Round(a.num * b.den + b.num * a.den, a.den * b.den)

true_divide(a, b) ==
    IF b.num > 0 THEN Round(a.num * b.den, a.den * b.num)
    ELSE IF b.num < 0 THEN Round(0 - a.num * b.den, 0 - a.den * b.num)
    ELSE Divide(a.num, 0)

\* np.sum over a short axis: the elements are added from left to right
RECURSIVE np_sum(_)
np_sum(s) ==
    IF Len(s) = 1 THEN s[1]
    ELSE add(np_sum(SubSeq(s, 1, Len(s) - 1)), s[Len(s)])

\* weighted_sum_of_cells on one row of flat_raster, as numpy evaluates it
weighted_sum_of_cells_rounded(row, cell_ids, factors) ==
    LET result == np_sum([k \in 1..Len(cell_ids) |->
                             multiply(row[cell_ids[k] + 1], factors[k])])
        sum_of_weights == np_sum(factors)
    IN  true_divide(result, sum_of_weights)

\* the values of the format tried as cell values: the integers of at most
\* Precision bits, which the format holds exactly
CellValues ==
    {[kind |-> "finite", num |-> n, den |-> 1] :
        n \in (1 - Pow2(Precision))..(Pow2(Precision) - 1)}

\* the coverage fractions tried: k / 2^Precision, from 0 to 1
CoverageFractions ==
    {[kind |-> "finite", num |-> k, den |-> Pow2(Precision)] :
        k \in 0..Pow2(Precision)}

\* weighted_sum_of_cells is about to be called on one timestep of a
\* catchment that covers every cell of the grid
AggInit ==
    /\ pc = "aggregator"
    /\ call \in [row : [1..NumCells -> CellValues],
                 factors : [1..NumCells -> CoverageFractions]]
    /\ ret = NaN
    /\ cpu_count = 1
    /\ gdf = <<>>
    /\ merged_data = [n_time |-> 0, row_nbytes |-> 0,
                      units_attr |-> [v \in VarSet |-> ""]]
    /\ Idle

AggCall ==
    /\ pc = "aggregator"
    /\ ret' = weighted_sum_of_cells_rounded(call.row,
                                            [k \in 1..NumCells |-> k - 1],
                                            call.factors)
    /\ pc' = "aggregated"
    /\ UNCHANGED <<error, cpu_count, gdf, merged_data, call, num_partitions,
                   catchments, units, cat_chunks, vidx, time_chunks, i, shm,
                   pool, task, variable_data, temp, temp_exists, final,
                   final_ds, log>>

AggNext == AggCall

AggSpec == AggInit /\ [][AggNext]_vars

\* ------------------------------------------------------------------ claims
has_file(name) == \E f \in temp : f.name = name

\* the segment of the current chunk exists and is not released
in_chunk == pc \in {"pool", "map", "exit", "close", "unlink"}

\* C1: for any positive axis length and memory limit, get_index_chunks
\* returns ranges that start at 0, each starting where the previous one
\* ends, the last one ending at the axis length exactly.
C1_RangesCoverAxisExactly ==
    pc = "returned" =>
        /\ ret.raised = "none"
        /\ Len(ret.value) >= 1
        /\ ret.value[1][1] = 0
        /\ \A k \in 1..Len(ret.value) : ret.value[k][1] < ret.value[k][2]
        /\ \A k \in 2..Len(ret.value) : ret.value[k][1] = ret.value[k - 1][2]
        /\ ret.value[Len(ret.value)][2] = call.max_index

\* C7: when the memory limit is smaller than one row, get_index_chunks
\* still returns a chunking, of at least one chunk per row.
C7_LimitBelowOneRowStillChunks ==
    (pc = "returned"
       /\ 5 * call.row_nbytes > Min(4 * call.available, 5 * ChunkCeiling)) =>
        /\ ret.raised = "none"
        /\ Len(ret.value) >= call.max_index

\* C2: whenever control is outside a chunk's processing (before the next
\* chunk, after the last one, or after an exception ended the run), the
\* segment allocated for the chunk is closed and unlinked.
C2_SegmentReleasedOnEveryExit ==
    ~ in_chunk => (~ shm.linked /\ ~ shm.open)

\* C3: a segment is unlinked only when the pool of its chunk has exited and
\* every task of the chunk ran to its return, none holding an attachment.
C3_UnlinkOnlyAfterPoolExit ==
    (shm.name > 0 /\ ~ shm.linked) =>
        /\ pool = "exited"
        /\ \A k \in DOMAIN task :
              task[k].state = "returned" /\ ~ task[k].attached

C3_Witness ==
    /\ pc = "persist"
    /\ ~ shm.linked
    /\ pool = "exited"
    /\ Len(task) >= 2

\* the weight table's partitions aggregated over the whole time range at once
Unchunked(var) ==
    concat_catchment(
        [k \in 1..num_partitions |->
            process_chunk_shared(
                isel_times(merged_data.n_time, 0, merged_data.n_time),
                isel(var, merged_data.n_time, 0, merged_data.n_time),
                cat_chunks[k])])

\* C4: a variable's file, the concatenation over time of its chunk files,
\* holds every timestep of the range once and the values of an aggregation
\* of the whole range in one pass.
C4_ChunkingKeepsResults ==
    \A f \in temp :
        f.name[1] = "variable" =>
            /\ f.ds.time = [t \in 1..merged_data.n_time |-> t - 1]
            /\ f.ds = Unchunked(f.name[2])

\* a variable was concatenated from three chunks, the last one shorter
C4_Witness ==
    /\ pc = "variable"
    /\ vidx = 2
    /\ has_file(VarFile(DataVars[1]))
    /\ Len(time_chunks) >= 3
    /\ time_chunks[Len(time_chunks)][2] > merged_data.n_time

\* C5: forcings.nc is at every moment the prior output or a complete new one.
C5_FinalNeverPartial == final.state \in {"prior", "complete"}

\* C6: a chunk is staged only when every earlier chunk of the variable is
\* persisted and every task of the previous chunk has returned, and the time
\* coordinate of a variable's file is ascending.
C6_SequentialChunksAscendingTime ==
    /\ pc = "pool" =>
          /\ \A j \in 0..(i - 1) : has_file(ChunkFile(variable, j))
          /\ ~ \E f \in temp : f.name[1] = "timechunk" /\ f.name[3] >= i
          /\ \A k \in DOMAIN task : task[k].state = "returned"
    /\ \A f \in temp :
          f.name[1] = "variable" =>
              \A a, b \in DOMAIN f.ds.time :
                  a < b => f.ds.time[a] < f.ds.time[b]

\* the second chunk of a variable is staged, two tasks having run on the first
C6_Witness ==
    /\ pc = "pool"
    /\ i = 1
    /\ Len(task) >= 2
    /\ has_file(VarFile(DataVars[1]))
    /\ Len(open_dataset(temp, VarFile(DataVars[1])).time) >= 2

\* C8: a variable without unit metadata does not end the run: a warning is
\* logged for it and the final output carries no units for it.
C8_MissingUnitsNotFatal ==
    \A var \in VarSet :
        merged_data.units_attr[var] \in {"<absent>", ""} =>
            /\ error # "KeyError: units"
            /\ pc = "done" =>
                  /\ <<"has no units", var>> \in log
                  /\ \A v \in final.vars :
                        v.name = PublicName(var) => v.units = "<absent>"

\* C9: a task that has ended, by returning or by raising, holds no
\* attachment to the segment.
C9_EndedTaskHoldsNoAttachment ==
    \A k \in DOMAIN task :
        task[k].state \in {"returned", "raised"} => ~ task[k].attached

\* C10: a returned task holds one series for every catchment of its
\* partition: NaN at every timestep for a catchment whose coverages sum to
\* zero, the coverage-weighted mean for every other one.
C10_ZeroWeightGivesNaNOthersComputed ==
    \A k \in DOMAIN task :
        (pool = "running" /\ task[k].state = "returned") =>
            LET res == task[k].result
                part == cat_chunks[k]
            IN  /\ Len(res.time) >= 1
                /\ Len(res.rows) = Len(part)
                /\ \A j \in 1..Len(part) :
                      /\ res.rows[j].catchment = part[j].ID
                      /\ Len(res.rows[j].series) = Len(res.time)
                      /\ \A t \in 1..Len(res.time) :
                            IF SumSeq(part[j].coverage) = 0
                            THEN res.rows[j].series[t] = NaN
                            ELSE res.rows[j].series[t] =
                                   [kind |-> "finite",
                                    num |-> SumSeq([c \in 1..Len(part[j].cell_id) |->
                                               Raster(variable, res.time[t],
                                                      part[j].cell_id[c])
                                               * part[j].coverage[c]]),
                                    den |-> SumSeq(part[j].coverage)]

\* a task returned for a partition of a zero-weight catchment and another one
C10_Witness ==
    \E k \in DOMAIN task :
        /\ pool = "running"
        /\ task[k].state = "returned"
        /\ \E j \in DOMAIN cat_chunks[k] : SumSeq(cat_chunks[k][j].coverage) = 0
        /\ \E j \in DOMAIN cat_chunks[k] : SumSeq(cat_chunks[k][j].coverage) > 0

\* the positions of the loop over a variable's time-chunks
in_chunk_loop == pc \in {"stage", "pool", "map", "exit", "close", "unlink", "persist"}

\* C11: forcings.nc is written once; in a run that has not aborted a chunk
\* file exists from its write to the concatenation of its variable (none is
\* deleted before it is read) and not after it,
\* a variable's file holds the whole range from then to the final write,
\* and after a successful run neither a file of temp nor temp is left.
C11_WrittenOnceNoIntermediateLeft ==
    /\ final.writes <= 1
    /\ pc = "done" =>
          /\ final.state = "complete"
          /\ final.writes = 1
          /\ {PublicName(var) : var \in VarSet} \subseteq {v.name : v \in final.vars}
          /\ temp = {}
          /\ ~ temp_exists
    /\ in_chunk_loop => \A j \in 0..(i - 1) : has_file(ChunkFile(variable, j))
    /\ \A f \in temp :
          (f.name[1] = "timechunk" /\ pc # "raised") =>
              in_chunk_loop /\ f.name[2] = variable /\ f.name[3] < i
    /\ (in_chunk_loop \/ pc \in {"variable", "write_outputs", "to_netcdf",
                                  "flush", "cleanup"}) =>
          \A k \in 1..(vidx - 1) :
              /\ has_file(VarFile(DataVars[k]))
              /\ Len(open_dataset(temp, VarFile(DataVars[k])).time)
                    = merged_data.n_time

\* a run of several time-chunks a variable has completed
C11_Witness ==
    /\ pc = "done"
    /\ final.writes = 1
    /\ temp = {}
    /\ Len(time_chunks) >= 2

\* a <= b for two finite values
Le(a, b) == a.num * b.den <= b.num * a.den

\* C12: for non-negative coverages of which one at least is non-zero, the
\* value weighted_sum_of_cells returns for a timestep lies between the
\* least and the greatest of the catchment's cell values at that timestep.
C12_AverageWithinCellRange ==
    (/\ pc = "aggregated"
     /\ \A k \in 1..NumCells : call.factors[k].num >= 0
     /\ \E k \in 1..NumCells : call.factors[k].num > 0) =>
        /\ ret.kind = "finite"
        /\ \E k \in 1..NumCells : Le(call.row[k], ret)
        /\ \E k \in 1..NumCells : Le(ret, call.row[k])

\* C13: get_index_chunks returns exactly ceil(total bytes / limit) ranges,
\* limit being min(5 GiB, 80% of the available memory): the remainder of
\* the division of the axis by the stride belongs to the last range and
\* adds no range.
C13_RangeCountIsCeilOfBytesOverLimit ==
    (pc = "returned" /\ ret.raised = "none") =>
        /\ Len(ret.value) = CeilDiv(5 * call.max_index * call.row_nbytes,
                                    Min(4 * call.available, 5 * ChunkCeiling))
        /\ ret.value[Len(ret.value)][2] = call.max_index

\* one row of the axis fits within min(5 GiB, 80% of the available memory)
row_fits == 5 * call.row_nbytes <= Min(4 * call.available, 5 * ChunkCeiling)

\* the rows of the axis that data.isel(time=slice(start, end)) selects
rows_selected(range) == Min(range[2], call.max_index) - range[1]

\* C14: on an axis whose single row fits within the limit, get_index_chunks
\* returns, and the rows each returned range selects take at most
\* min(5 GiB, 80% of the available memory) bytes.
C14_RangeFootprintWithinLimit ==
    (pc = "returned" /\ row_fits) =>
        /\ ret.raised = "none"
        /\ \A k \in 1..Len(ret.value) :
              5 * rows_selected(ret.value[k]) * call.row_nbytes
                  <= Min(4 * call.available, 5 * ChunkCeiling)

C14_Witness ==
    /\ pc = "returned"
    /\ row_fits
    /\ Len(ret.value) >= 2
    /\ \E k \in 1..Len(ret.value) : rows_selected(ret.value[k]) >= 2

\* C15: the contents of a chunk's segment change only in the parent's
\* create_shared_memory, while no worker of the chunk runs or is attached,
\* and when the segment is unlinked; no step of a worker changes them.
C15_SegmentWrittenOnlyWhileStaged ==
    [][shm'.buf # shm.buf =>
          \/ /\ pc = "stage"
             /\ pool # "running"
             /\ \A k \in DOMAIN task : ~ task[k].attached
          \/ /\ pc = "unlink"
             /\ ~ shm'.linked]_vars

C15_Witness ==
    /\ pool = "running"
    /\ shm.linked
    /\ shm.buf = data_chunk
    /\ \E k \in DOMAIN task : task[k].state = "attached"
    /\ \E k \in DOMAIN task : task[k].state = "returned"

\* C16: for a core count of one or more and a non-empty catchment set, the
\* partition count computed by compute_zonal_stats is at least 1 and at
\* most the number of catchments, no split into partitions fails and no
\* partition of the weight table is empty.
C16_PartitionCountBetweenOneAndN ==
    (cpu_count >= 1 /\ Len(gdf) >= 1 /\ pc # "partitions") =>
        /\ 1 <= num_partitions
        /\ num_partitions <= Len(gdf)
        /\ error # "ValueError: array_split"
        /\ \A k \in DOMAIN cat_chunks : cat_chunks[k] # <<>>

\* the number of rows of a concatenated result that belong to catchment id
occurrences(rows, id) == Cardinality({k \in DOMAIN rows : rows[k].catchment = id})

\* every catchment of the weight table has exactly one row in rows
each_catchment_once(rows) ==
    /\ Len(rows) = Len(catchments)
    /\ \A c \in DOMAIN catchments : occurrences(rows, catchments[c].ID) = 1

\* C17: np.array_split puts every catchment ID of the weight table in
\* exactly one partition, and the result of a time-chunk concatenated over
\* the partitions holds every catchment of the table exactly once, in
\* whatever order the workers return.
C17_EachCatchmentOncePerChunk ==
    /\ cat_chunks # <<>> =>
          \A c \in DOMAIN catchments :
              Cardinality({pj \in {<<p, j>> : p \in DOMAIN cat_chunks,
                                              j \in 1..Len(catchments)} :
                              /\ pj[2] <= Len(cat_chunks[pj[1]])
                              /\ cat_chunks[pj[1]][pj[2]].ID = catchments[c].ID})
                  = 1
    /\ pc \in {"exit", "close", "unlink", "persist"} =>
          each_catchment_once(concat_catchment(variable_data).rows)
    /\ \A f \in temp :
          f.name[1] = "timechunk" => each_catchment_once(f.ds.rows)

\* the second partition's worker has returned before the first one's, and
\* an earlier time-chunk was concatenated and written
C17_Witness ==
    /\ pool = "running"
    /\ Len(cat_chunks) >= 2
    /\ task[2].state = "returned"
    /\ task[1].state = "attached"
    /\ has_file(ChunkFile(variable, 0))

====
